---- MODULE Spec2Model ----
(***************************************************************************)
(* The access-control loop of controller/coffee_controller.py              *)
(* (CoffeeController): card scans, security lockout, master mode, the      *)
(* non-blocking relay timer and the NFC reader maintenance.                *)
(*                                                                         *)
(* Time is the host clock in whole seconds.  One LoopIteration is one pass *)
(* of the `while True` body of run(); every time.time() read of a pass     *)
(* returns the same second, and the clock advances between passes by one   *)
(* of the Delays (0: the next pass still reads the same second).           *)
(*                                                                         *)
(* The last part follows one run after another of updater.py (main): the   *)
(* fetch, the pull, the verification, the validation tests, the rollback.  *)
(***************************************************************************)
EXTENDS Integers, Sequences, FiniteSets, TLC

\* ---------------------------------------------------------------- bounds
\* clock value at process start (epoch seconds, far above 10800)
StartEpoch == 20000
\* the clock is followed for this many seconds after StartEpoch
Horizon == 120

MaxNow == StartEpoch + Horizon

\* seconds by which the clock may have advanced at the next pass of the loop
Delays == {0, 60}

\* the same for the reader-maintenance runs, which span the 15 and 30 minute
\* intervals of the watchdog and of the periodic reset and one long activation
HealthHorizon == 1890

\* the same for the relay-timer runs: a first activation lasts
\* LONG_ACTIVATION_SECONDS and its engagement lock one second more
TimerHorizon == 91

TimerDelays == {0, 90, 91}

\* the same for the long-idle runs: three hours and a second
IdleHorizon == 10801

\* the same for the lockout runs: one security lockout from start to expiry
LockoutHorizon == 300

\* ------------------------------------------------------ program constants
NFC_PERIODIC_RESET_INTERVAL == 30 * 60
NFC_WATCHDOG_TIMEOUT == 15 * 60
INVALID_WINDOW_SECONDS == 60
MAX_INVALID_ATTEMPTS == 10
LOCKOUT_SECONDS == 5 * 60
LONG_IDLE_SECONDS == 10800
LONG_ACTIVATION_SECONDS == 90
SHORT_ACTIVATION_SECONDS == 30
LOCK_GRACE_SECONDS == 1

RELAY_PINS == {"power", "single", "double", "steam"}

\* ------------------------------------------------------------ the cards
None == "None"
MasterCard == "M"
\* the cards presented to the reader.  A: active, not barred.  B: barred.
\* I: inactive.  U: no record.
Cards == {MasterCard, "A", "B", "I", "U"}

\* the users table at start, one row per token_id
InitialUsers ==
    [c \in {"A", "B", "I"} |->
        CASE c = "A" -> [active |-> 1, barred |-> 0, name |-> "user"]
          [] c = "B" -> [active |-> 1, barred |-> 1, name |-> "user"]
          [] c = "I" -> [active |-> 0, barred |-> 0, name |-> "user"]]

\* ------------------------------------------------------------ the store
\* how the record store answers during one pass: at the refresh of the scan
\* mode (store_at_refresh), at the statements made for the card (store) and
\* at the usage-log write (store_at_log).  StoreOk: every statement works.  StoreError: every statement fails with an sqlite3.Error, which the
\* manager's methods catch.  StoreRaise: sqlite3.connect fails in
\* get_connection, outside the try of the manager's methods, so they raise.
StoreOk == "ok"
StoreError == "error"
StoreRaise == "raise"
StoreModes == {StoreOk, StoreError, StoreRaise}

\* the store during a pass: it works, or it fails from one statement of the
\* pass on (a failed refresh leaves the same flag whichever way the read
\* failed)
StoreCases ==
    {[at_refresh |-> StoreOk, at_card |-> StoreOk, at_log |-> m] : m \in StoreModes}
        \cup {[at_refresh |-> StoreOk, at_card |-> m, at_log |-> m] :
                  m \in {StoreError, StoreRaise}}
        \cup {[at_refresh |-> StoreRaise, at_card |-> StoreRaise, at_log |-> StoreRaise]}

\* the cases that differ for a pass reading uid: only a card other than the
\* master card makes a statement after the refresh
StoreCasesFor(s, uid) ==
    IF uid = None \/ uid = s.master_token_id
    THEN {c \in StoreCases : c.at_refresh = c.at_card /\ c.at_card = c.at_log}
    ELSE StoreCases

\* the store as it answers the next statement
WithStore(s, mode) == [s EXCEPT !.store = mode]

VARIABLES
    now,                          \* the host clock, time.time()
    pc,                           \* "init": constructed; "loop": in run(); "exited"
    env_master,                   \* os.getenv('MASTER_TOKEN_ID') of the process
    master_token_id,
    master_mode,
    scan_mode,
    lock_until_epoch,
    security_lock_until_epoch,
    invalid_attempt_timestamps,
    relay_deactivation_time,
    last_used_time,
    last_scan_time,
    last_nfc_reset_time,
    relay,                        \* GPIO output level of each relay pin
    led,                          \* GPIO output level of each LED pin
    users,                        \* users table of the record store
    usage_log,                    \* usage_log table: the token of each row
    settings,                     \* settings table
    ev,                           \* what the latest pass of the loop did
    updater                       \* a run of updater.py: its position, locals and git

vars == <<now, pc, env_master, master_token_id, master_mode, scan_mode, lock_until_epoch,
          security_lock_until_epoch, invalid_attempt_timestamps,
          relay_deactivation_time, last_used_time, last_scan_time,
          last_nfc_reset_time, relay, led, users, usage_log, settings, ev,
          updater>>

\* the controller, its outputs and the store as one value, threaded through
\* the methods below
State ==
    [env_master |-> env_master,
     master_token_id |-> master_token_id,
     master_mode |-> master_mode,
     scan_mode |-> scan_mode,
     lock_until_epoch |-> lock_until_epoch,
     security_lock_until_epoch |-> security_lock_until_epoch,
     invalid_attempt_timestamps |-> invalid_attempt_timestamps,
     relay_deactivation_time |-> relay_deactivation_time,
     last_used_time |-> last_used_time,
     last_scan_time |-> last_scan_time,
     last_nfc_reset_time |-> last_nfc_reset_time,
     relay |-> relay,
     led |-> led,
     users |-> users,
     usage_log |-> usage_log,
     settings |-> settings,
     store |-> StoreOk,
     store_at_refresh |-> StoreOk,
     store_at_log |-> StoreOk,
     clock_step |-> 0,
     ev |-> ev]

Commit(s) ==
    /\ env_master' = s.env_master
    /\ master_token_id' = s.master_token_id
    /\ master_mode' = s.master_mode
    /\ scan_mode' = s.scan_mode
    /\ lock_until_epoch' = s.lock_until_epoch
    /\ security_lock_until_epoch' = s.security_lock_until_epoch
    /\ invalid_attempt_timestamps' = s.invalid_attempt_timestamps
    /\ relay_deactivation_time' = s.relay_deactivation_time
    /\ last_used_time' = s.last_used_time
    /\ last_scan_time' = s.last_scan_time
    /\ last_nfc_reset_time' = s.last_nfc_reset_time
    /\ relay' = s.relay
    /\ led' = s.led
    /\ users' = s.users
    /\ usage_log' = s.usage_log
    /\ settings' = s.settings
    /\ ev' = s.ev
    /\ UNCHANGED updater

\* ------------------------------------------------------------ GPIO
AllRelays(level) == [p \in RELAY_PINS |-> level]

LedPattern(status) ==
    CASE status = "ready" -> [red |-> TRUE, green |-> FALSE]
      [] status = "active" -> [red |-> FALSE, green |-> TRUE]
      [] status = "master" -> [red |-> TRUE, green |-> TRUE]
      [] status = "off" -> [red |-> FALSE, green |-> FALSE]

set_led_status(s, status) == [s EXCEPT !.led = LedPattern(status)]

\* no relay and no light is driven
OutputsOff(s) == s.relay = AllRelays(FALSE) /\ s.led = LedPattern("off")

\* as cleanup, the outputs left as they are
cleanup_skipped(s) == s

\* GPIO.cleanup(): every channel back to an input, so every output is off
cleanup(s) == [s EXCEPT !.relay = AllRelays(FALSE), !.led = LedPattern("off")]

\* ------------------------------------------------------------ what a pass did
\* branch: the rule of run() that decided the card ("none": no card read);
\* get_user_calls: the calls of db.get_user; cleared: "Security lockout cleared
\* by master token." was printed; reset: the reader reset made; restarted:
\* restart_script ran; fatal: an exception left run(); lookup_failed: a
\* get_user call met a failing store; outputs_released: the process ended or
\* was executed again with every output off; ended_while: what the loop was
\* in when it ended ("master_mode", "activation", "idle"; "none": not ended)
NoEvent ==
    [branch |-> "none", get_user_calls |-> 0, cleared |-> FALSE,
     reset |-> "none", restarted |-> FALSE, fatal |-> FALSE,
     lookup_failed |-> FALSE, outputs_released |-> FALSE, ended_while |-> "none"]

Note(s, field, value) == [s EXCEPT !.ev = [s.ev EXCEPT ![field] = value]]

\* ------------------------------------------------------------ record store
\* each method below is given for the store modes in which it returns; in
\* StoreRaise it raises instead, which the caller decides with Raises
Raises(s) == s.store = StoreRaise

\* get_setting: the value, or None on an sqlite3.Error
db_get_setting(s, key) == IF s.store = StoreOk THEN s.settings[key] ELSE None

\* set_setting: nothing is written on an sqlite3.Error
db_set_setting(s, key, value) ==
    IF s.store = StoreOk
    THEN [s EXCEPT !.settings = [s.settings EXCEPT ![key] = value]]
    ELSE s

\* get_user: <<row>>, or <<>> for Python's None (no row, or an sqlite3.Error);
\* the call is counted in ev
db_get_user(s, token_id) ==
    IF s.store = StoreOk /\ token_id \in DOMAIN s.users
    THEN <<s.users[token_id]>> ELSE <<>>

CountGetUser(s) ==
    Note(Note(s, "get_user_calls", s.ev.get_user_calls + 1),
         "lookup_failed", s.ev.lookup_failed \/ s.store # StoreOk)

\* as db_add_pending_user, with INSERT OR REPLACE
db_add_pending_user_replace(s, token_id) ==
    IF s.store # StoreOk
    THEN s
    ELSE [s EXCEPT !.users =
             [c \in DOMAIN s.users \cup {token_id} |->
                 IF c = token_id
                 THEN [active |-> 0, barred |-> 1, name |-> "Pending"]
                 ELSE s.users[c]]]

\* INSERT ... ON CONFLICT(token_id) DO NOTHING
db_add_pending_user(s, token_id) ==
    IF s.store # StoreOk \/ token_id \in DOMAIN s.users
    THEN s
    ELSE [s EXCEPT !.users =
             [c \in DOMAIN s.users \cup {token_id} |->
                 IF c = token_id
                 THEN [active |-> 0, barred |-> 1, name |-> "Pending"]
                 ELSE s.users[c]]]

\* log_coffee_usage: no row is written on an sqlite3.Error
db_log_coffee_usage(s, token_id) ==
    IF s.store = StoreOk
    THEN [s EXCEPT !.usage_log = Append(s.usage_log, token_id)]
    ELSE s

\* ------------------------------------------------------------ lockout guard
RECURSIVE PruneFrom(_, _)
PruneFrom(q, cutoff) ==
    IF q # <<>> /\ Head(q) < cutoff THEN PruneFrom(Tail(q), cutoff) ELSE q

\* as _prune_invalid_attempts, nothing dropped
prune_invalid_attempts_skipped(s, now_epoch) == s

_prune_invalid_attempts(s, now_epoch) ==
    [s EXCEPT !.invalid_attempt_timestamps =
        PruneFrom(s.invalid_attempt_timestamps, now_epoch - INVALID_WINDOW_SECONDS)]

\* as _record_invalid_attempt_and_maybe_lock, locking at the 10th attempt
record_invalid_attempt_off_by_one(s, now_epoch) ==
    LET s1 == _prune_invalid_attempts(s, now_epoch)
        s2 == [s1 EXCEPT !.invalid_attempt_timestamps = Append(@, now_epoch)]
    IN  IF Len(s2.invalid_attempt_timestamps) >= MAX_INVALID_ATTEMPTS
        THEN set_led_status(
                 [s2 EXCEPT !.security_lock_until_epoch = now_epoch + LOCKOUT_SECONDS,
                            !.invalid_attempt_timestamps = <<>>],
                 "off")
        ELSE s2

\* as _record_invalid_attempt_and_maybe_lock, the window kept when locking
record_invalid_attempt_keeps_window(s, now_epoch) ==
    LET s1 == _prune_invalid_attempts(s, now_epoch)
        s2 == [s1 EXCEPT !.invalid_attempt_timestamps = Append(@, now_epoch)]
    IN  IF Len(s2.invalid_attempt_timestamps) > MAX_INVALID_ATTEMPTS
        THEN set_led_status(
                 [s2 EXCEPT !.security_lock_until_epoch = now_epoch + LOCKOUT_SECONDS],
                 "off")
        ELSE s2

_record_invalid_attempt_and_maybe_lock(s, now_epoch) ==
    LET s1 == _prune_invalid_attempts(s, now_epoch)
        s2 == [s1 EXCEPT !.invalid_attempt_timestamps = Append(@, now_epoch)]
    IN  IF Len(s2.invalid_attempt_timestamps) > MAX_INVALID_ATTEMPTS
        THEN set_led_status(
                 [s2 EXCEPT !.security_lock_until_epoch = now_epoch + LOCKOUT_SECONDS,
                            !.invalid_attempt_timestamps = <<>>],
                 "off")
        ELSE s2

\* ------------------------------------------------------------ authorization
\* as is_token_authorized, the barred flag not read
is_token_authorized_ignores_barred(s, token_id) ==
    IF s.scan_mode THEN FALSE
    ELSE LET user == db_get_user(s, token_id)
         IN  /\ user # <<>>
             /\ user[1].active = 1

\* as is_token_authorized, a failed lookup taken for an authorization
is_token_authorized_fail_open(s, token_id) ==
    IF s.scan_mode THEN FALSE
    ELSE IF s.store # StoreOk THEN TRUE
    ELSE LET user == db_get_user(s, token_id)
         IN  /\ user # <<>>
             /\ user[1].active = 1
             /\ user[1].barred # 1

is_token_authorized(s, token_id) ==
    IF s.scan_mode THEN FALSE
    ELSE LET user == db_get_user(s, token_id)
         IN  /\ user # <<>>
             /\ user[1].active = 1
             /\ user[1].barred # 1

\* the state after is_token_authorized: it calls get_user unless in scan mode
after_is_token_authorized(s) == IF s.scan_mode THEN s ELSE CountGetUser(s)

\* ------------------------------------------------------------ master mode
\* as enter_master_mode, without the early return
enter_master_mode_unguarded(s) ==
    [set_led_status([s EXCEPT !.master_mode = TRUE], "master")
        EXCEPT !.relay = AllRelays(TRUE)]

enter_master_mode(s) ==
    IF s.master_mode THEN s
    ELSE [set_led_status([s EXCEPT !.master_mode = TRUE], "master")
             EXCEPT !.relay = AllRelays(TRUE)]

\* as exit_master_mode, the relays left as they are
exit_master_mode_keeps_relays(s) ==
    IF ~s.master_mode THEN s
    ELSE set_led_status([s EXCEPT !.master_mode = FALSE], "ready")

exit_master_mode(s) ==
    IF ~s.master_mode THEN s
    ELSE set_led_status([s EXCEPT !.master_mode = FALSE, !.relay = AllRelays(FALSE)],
                        "ready")

\* ------------------------------------------------------------ relay timer
\* as activate_all_relays, the timer running as long as the engagement lock
activate_all_relays_late(s, duration, t) ==
    [s EXCEPT !.relay = AllRelays(TRUE),
              !.relay_deactivation_time = t + duration + LOCK_GRACE_SECONDS]

activate_all_relays(s, duration, t) ==
    [s EXCEPT !.relay = AllRelays(TRUE), !.relay_deactivation_time = t + duration]

\* as check_and_deactivate_relays, the expired timer left set
check_and_deactivate_relays_keeps_timer(s, t) ==
    IF s.relay_deactivation_time > 0 /\ t >= s.relay_deactivation_time
    THEN set_led_status([s EXCEPT !.relay = AllRelays(FALSE)], "ready")
    ELSE s

check_and_deactivate_relays(s, t) ==
    IF s.relay_deactivation_time > 0 /\ t >= s.relay_deactivation_time
    THEN set_led_status([s EXCEPT !.relay = AllRelays(FALSE),
                                  !.relay_deactivation_time = 0],
                        "ready")
    ELSE s

is_relay_active(s, t) ==
    \/ s.relay_deactivation_time > 0 /\ t < s.relay_deactivation_time
    \/ s.master_mode

\* ------------------------------------------------------------ reader health
\* as reinit_nfc_reader, last_scan_time left as it was
reinit_nfc_reader_keeps_scan_time(s, reason, t) ==
    Note([s EXCEPT !.last_nfc_reset_time = t], "reset", reason)

\* a successful reinit_nfc_reader
reinit_nfc_reader(s, reason, t) ==
    Note([s EXCEPT !.last_scan_time = t, !.last_nfc_reset_time = t], "reset", reason)

\* as DueReset, the watchdog tried first
DueReset_watchdog_first(s, t) ==
    IF t - s.last_scan_time > NFC_WATCHDOG_TIMEOUT THEN "watchdog"
    ELSE IF t - s.last_nfc_reset_time > NFC_PERIODIC_RESET_INTERVAL THEN "periodic"
    ELSE "none"

\* which of the two triggers of run() is due at t: the watchdog is an elif
DueReset(s, t) ==
    IF t - s.last_nfc_reset_time > NFC_PERIODIC_RESET_INTERVAL THEN "periodic"
    ELSE IF t - s.last_scan_time > NFC_WATCHDOG_TIMEOUT THEN "watchdog"
    ELSE "none"

\* the maintenance block of run() when the reset, if one is made, succeeds
Maintenance(s, t) ==
    LET due == DueReset(s, t)
    IN  IF due = "none" THEN s
        ELSE IF is_relay_active(s, t) THEN s
        ELSE reinit_nfc_reader(s, due, t)

\* the maintenance block calls reinit_nfc_reader at t
ResetAttempted(s, t) == DueReset(s, t) # "none" /\ ~is_relay_active(s, t)

\* ------------------------------------------------------------ construction
\* Python's truth value of an optional string: None and '' are false
Truthy(v) == v # None /\ v # ""

\* as resolve_master_token, the stored setting taking precedence
resolve_master_token_db_first(s) ==
    LET db_master == db_get_setting(s, "master_token_id")
    IN  IF Truthy(db_master) THEN db_master ELSE s.env_master

\* env_master if env_master else db_master
resolve_master_token(s) ==
    LET db_master == db_get_setting(s, "master_token_id")
    IN  IF Truthy(s.env_master) THEN s.env_master ELSE db_master

\* CoffeeController.__init__ at clock value t, over the store of s
Constructed(s, t) ==
    LET val == db_get_setting(s, "scan_mode")
        s1 == IF val = None THEN db_set_setting(s, "scan_mode", "0") ELSE s
    IN  [s1 EXCEPT !.master_token_id = resolve_master_token(s),
                   !.master_mode = FALSE,
                   !.scan_mode = (val = "1"),
                   !.lock_until_epoch = 0,
                   !.security_lock_until_epoch = 0,
                   !.invalid_attempt_timestamps = <<>>,
                   !.relay_deactivation_time = 0,
                   !.last_used_time = 0,
                   !.last_scan_time = t,
                   !.last_nfc_reset_time = t,
                   !.relay = AllRelays(FALSE),
                   !.led = LedPattern("off"),
                   !.ev = NoEvent]

\* what the loop is in when it ends in s
EndedWhile(s) ==
    IF s.master_mode THEN "master_mode"
    ELSE IF s.relay # AllRelays(FALSE) THEN "activation"
    ELSE "idle"

\* as restart_script, the controller keeping its fields
restart_script_keeps_state(s, t) ==
    LET released == cleanup(s)
    IN  Note(Note(released, "restarted", TRUE), "outputs_released", OutputsOff(released))

\* restart_script: cleanup(), then the process image is executed again
restart_script(s, t) ==
    LET released == cleanup(s)
    IN  Note(Note(Note(Constructed(released, t), "restarted", TRUE),
                  "outputs_released", OutputsOff(released)),
             "ended_while", EndedWhile(s))

\* ------------------------------------------------------------ the guards
\* as security_lockout_active, reading the engagement lock instead
security_lockout_wrong_field(s, t) == t < s.lock_until_epoch

\* as security_lockout_active, the lockout lasting through its last second
security_lockout_inclusive(s, t) == t <= s.security_lock_until_epoch

\* time.time() < self.security_lock_until_epoch
security_lockout_active(s, t) == t < s.security_lock_until_epoch

\* as clear_lockout_on_master, clearing whether or not a lockout is in effect
clear_lockout_always(s, t) ==
    Note([s EXCEPT !.security_lock_until_epoch = 0,
                   !.invalid_attempt_timestamps = <<>>],
         "cleared", TRUE)

\* as clear_lockout_on_master, the lockout left in place
clear_lockout_forgotten(s, t) == s

\* the master card clears a lockout that is in effect
clear_lockout_on_master(s, t) ==
    IF security_lockout_active(s, t)
    THEN Note([s EXCEPT !.security_lock_until_epoch = 0,
                        !.invalid_attempt_timestamps = <<>>],
              "cleared", TRUE)
    ELSE s

\* as machine_engaged, the second the lock ends still counted
machine_engaged_inclusive(s, t) == t <= s.lock_until_epoch

\* as machine_engaged, reading the relay timer instead of the lock
machine_engaged_by_timer(s, t) == t < s.relay_deactivation_time

\* now < self.lock_until_epoch
\* as machine_engaged, no scan ever taken for one during an activation
machine_engaged_never(s, t) == FALSE

machine_engaged(s, t) == t < s.lock_until_epoch

\* ------------------------------------------------------------ one card
\* uid == self.master_token_id, with a master token configured
is_master_card(s, uid) == Truthy(s.master_token_id) /\ uid = s.master_token_id

\* the master card: a lockout in effect is cleared, master mode is toggled
master_scan(s, t) ==
    LET s1 == clear_lockout_on_master(s, t)
    IN  IF s1.master_mode THEN exit_master_mode(s1) ELSE enter_master_mode(s1)

\* enrolment (scan mode): the token is published for the administration page
\* and gets a pending record unless get_user finds one.  add_pending_user is
\* called outside any try of run(): when it raises, the exception leaves run()
scan_mode_capture(s, uid) ==
    LET s1 == IF Raises(s) THEN s ELSE db_set_setting(s, "last_scanned_token", uid)
        existing == db_get_user(s1, uid)
        s2 == CountGetUser(s1)
    IN  IF existing # <<>> THEN s2
        ELSE IF Raises(s2) THEN Note(s2, "fatal", TRUE)
        ELSE db_add_pending_user(s2, uid)

\* as activation_seconds, the long activation from 10800 s on
activation_seconds_inclusive(s, t) ==
    IF t - s.last_used_time >= LONG_IDLE_SECONDS
    THEN LONG_ACTIVATION_SECONDS ELSE SHORT_ACTIVATION_SECONDS

\* 90 if time_since_last > 10800 else 30
activation_seconds(s, t) ==
    IF t - s.last_used_time > LONG_IDLE_SECONDS
    THEN LONG_ACTIVATION_SECONDS ELSE SHORT_ACTIVATION_SECONDS

\* as grant_access, nothing activated when the usage row is not written
grant_access_log_required(s, uid, t) ==
    LET s1 == set_led_status(s, "active")
        at_log == WithStore(s1, s1.store_at_log)
        s2 == WithStore(db_log_coffee_usage(at_log, uid), s1.store)
        duration == activation_seconds(s2, t)
        s3 == [s2 EXCEPT !.last_used_time = t,
                         !.lock_until_epoch = t + duration + LOCK_GRACE_SECONDS]
    IN  IF at_log.store # StoreOk THEN s1 ELSE activate_all_relays(s3, duration, t)

\* access granted: green, the usage row (a failing write is printed and
\* passed over), the engagement lock and the relay timer
grant_access(s, uid, t) ==
    LET s1 == set_led_status(s, "active")
        at_log == WithStore(s1, s1.store_at_log)
        s2 == IF Raises(at_log) THEN s1
              ELSE WithStore(db_log_coffee_usage(at_log, uid), s1.store)
        duration == activation_seconds(s2, t)
        s3 == [s2 EXCEPT !.last_used_time = t,
                         !.lock_until_epoch = t + duration + LOCK_GRACE_SECONDS]
    IN  activate_all_relays(s3, duration, t)

\* as deny_access, a scan whose lookup failed not counted
deny_access_failure_forgiven(s, t) ==
    IF s.ev.lookup_failed THEN set_led_status(s, "ready")
    ELSE set_led_status(_record_invalid_attempt_and_maybe_lock(s, t), "ready")

\* access denied: the attempt joins the window, the indicator goes to ready
deny_access(s, t) ==
    set_led_status(_record_invalid_attempt_and_maybe_lock(s, t), "ready")

\* as HandleCard, without the enrolment branch
HandleCard_no_enrolment_branch(s0, uid, t) ==
    LET s == [s0 EXCEPT !.last_scan_time = t]
    IN  IF is_master_card(s, uid)
        THEN Note(master_scan(s, t), "branch", "master")
        ELSE IF security_lockout_active(s, t)
        THEN Note(set_led_status(s, "off"), "branch", "locked")
        ELSE IF s.master_mode
        THEN Note(s, "branch", "master_mode")
        ELSE IF machine_engaged(s, t)
        THEN Note(s, "branch", "engaged")
        ELSE IF is_token_authorized(s, uid)
        THEN Note(grant_access(after_is_token_authorized(s), uid, t),
                  "branch", "granted")
        ELSE Note(deny_access(after_is_token_authorized(s), t), "branch", "denied")

\* as HandleCard, last_scan_time set only for a scan that no guard ignores
HandleCard_scan_time_after_guards(s, uid, t) ==
    IF is_master_card(s, uid)
    THEN Note(master_scan([s EXCEPT !.last_scan_time = t], t), "branch", "master")
    ELSE IF security_lockout_active(s, t)
    THEN Note(set_led_status(s, "off"), "branch", "locked")
    ELSE IF s.master_mode
    THEN Note(s, "branch", "master_mode")
    ELSE IF machine_engaged(s, t)
    THEN Note(s, "branch", "engaged")
    ELSE IF s.scan_mode
    THEN Note(scan_mode_capture([s EXCEPT !.last_scan_time = t], uid),
              "branch", "scan_mode")
    ELSE IF is_token_authorized(s, uid)
    THEN Note(grant_access(after_is_token_authorized([s EXCEPT !.last_scan_time = t]),
                           uid, t),
              "branch", "granted")
    ELSE Note(deny_access(after_is_token_authorized([s EXCEPT !.last_scan_time = t]), t),
              "branch", "denied")

\* as HandleCard, the enrolment rule tried before master mode and the
\* engagement lock
HandleCard_enrolment_first(s0, uid, t) ==
    LET s == [s0 EXCEPT !.last_scan_time = t]
    IN  IF is_master_card(s, uid)
        THEN Note(master_scan(s, t), "branch", "master")
        ELSE IF security_lockout_active(s, t)
        THEN Note(set_led_status(s, "off"), "branch", "locked")
        ELSE IF s.scan_mode
        THEN Note(scan_mode_capture(s, uid), "branch", "scan_mode")
        ELSE IF s.master_mode
        THEN Note(s, "branch", "master_mode")
        ELSE IF machine_engaged(s, t)
        THEN Note(s, "branch", "engaged")
        ELSE IF is_token_authorized(s, uid)
        THEN Note(grant_access(after_is_token_authorized(s), uid, t),
                  "branch", "granted")
        ELSE Note(deny_access(after_is_token_authorized(s), t), "branch", "denied")

\* as HandleCard, the security lockout tried before the master card
HandleCard_lockout_first(s0, uid, t) ==
    LET s == [s0 EXCEPT !.last_scan_time = t]
    IN  IF security_lockout_active(s, t)
        THEN Note(set_led_status(s, "off"), "branch", "locked")
        ELSE IF is_master_card(s, uid)
        THEN Note(master_scan(s, t), "branch", "master")
        ELSE IF s.master_mode
        THEN Note(s, "branch", "master_mode")
        ELSE IF machine_engaged(s, t)
        THEN Note(s, "branch", "engaged")
        ELSE IF s.scan_mode
        THEN Note(scan_mode_capture(s, uid), "branch", "scan_mode")
        ELSE IF is_token_authorized(s, uid)
        THEN Note(grant_access(after_is_token_authorized(s), uid, t),
                  "branch", "granted")
        ELSE Note(deny_access(after_is_token_authorized(s), t), "branch", "denied")

\* the body of `if uid:` in run(), all clock reads returning t
HandleCard(s0, uid, t) ==
    LET s == [s0 EXCEPT !.last_scan_time = t]
    IN  IF is_master_card(s, uid)
        THEN Note(master_scan(s, t), "branch", "master")
        ELSE IF security_lockout_active(s, t)
        THEN Note(set_led_status(s, "off"), "branch", "locked")
        ELSE IF s.master_mode
        THEN Note(s, "branch", "master_mode")
        ELSE IF machine_engaged(s, t)
        THEN Note(s, "branch", "engaged")
        ELSE IF s.scan_mode
        THEN Note(scan_mode_capture(s, uid), "branch", "scan_mode")
        ELSE IF is_token_authorized(s, uid)
        THEN Note(grant_access(after_is_token_authorized(s), uid, t),
                  "branch", "granted")
        ELSE Note(deny_access(after_is_token_authorized(s), t), "branch", "denied")

\* ------------------------------------------------------------ one pass
\* self.scan_mode = self.db.get_setting('scan_mode') == '1', False when the
\* read raises
refresh_scan_mode(s) ==
    LET at_refresh == WithStore(s, s.store_at_refresh)
    IN  [s EXCEPT !.scan_mode =
            ~Raises(at_refresh) /\ db_get_setting(at_refresh, "scan_mode") = "1"]

\* one pass of the while loop of run(): uid is what read_nfc_card returns,
\* reset_ok whether a reader reset would succeed.  The relay update reads the
\* clock at t, every read after it s0.clock_step seconds later
Pass(s0, uid, reset_ok, t) ==
    LET s1 == check_and_deactivate_relays([s0 EXCEPT !.ev = NoEvent], t)
        later == t + s0.clock_step
    IN  IF ResetAttempted(s1, later) /\ ~reset_ok
        THEN restart_script(s1, later)
        ELSE LET s2 == Maintenance(s1, later)
                 s3 == refresh_scan_mode(s2)
             IN  IF uid = None THEN s3 ELSE HandleCard(s3, uid, later)

\* ------------------------------------------------------------ the machine
\* the commits of the repository
Commits == {"c0", "c1", "c2"}

\* updater.py starts with head checked out and status in the settings row
\* last_update_status.  pre_update: HEAD at the start of the run; validated:
\* the validation tests of the run passed; recorded: the status the run wrote
UpdaterStarted(head, status) ==
    [pc |-> "main", HEAD |-> head, pre_update |-> head,
     current_commit |-> None, remote_commit |-> None, new_commit |-> None,
     validated |-> FALSE, last_update_status |-> status, recorded |-> None,
     exit_code |-> None]

\* updater.py has not been run yet
UpdaterAtRest == UpdaterStarted("c0", None)

InitWith(env, db_master) ==
    /\ now = StartEpoch
    /\ updater = UpdaterAtRest
    /\ pc = "init"
    /\ env_master = env
    /\ master_token_id =
          resolve_master_token([env_master |-> env, store |-> StoreOk,
                                settings |-> [master_token_id |-> db_master]])
    /\ master_mode = FALSE
    /\ scan_mode = FALSE
    /\ lock_until_epoch = 0
    /\ security_lock_until_epoch = 0
    /\ invalid_attempt_timestamps = <<>>
    /\ relay_deactivation_time = 0
    /\ last_used_time = 0
    /\ last_scan_time = StartEpoch
    /\ last_nfc_reset_time = StartEpoch
    /\ relay = AllRelays(FALSE)
    /\ led = LedPattern("off")
    /\ users = InitialUsers
    /\ usage_log = <<>>
    /\ settings = [scan_mode |-> "0", last_scanned_token |-> None,
                   master_token_id |-> db_master]
    /\ ev = NoEvent

\* MASTER_TOKEN_ID is set in the environment to the master card, no setting
\* is stored
Init == InitWith(MasterCard, None)

\* the head of run(): the indicator goes to ready before the loop
RunStart ==
    /\ pc = "init"
    /\ pc' = "loop"
    /\ Commit(set_led_status(State, "ready"))
    /\ UNCHANGED now

\* the process has ended: cleanup() has run and the controller object is
\* gone, its fields are left blank
Ended(s) ==
    LET released == cleanup(s)
    IN  Note(Note([Constructed(released, 0) EXCEPT !.scan_mode = FALSE],
                  "outputs_released", OutputsOff(released)),
             "ended_while", EndedWhile(s))

\* the seconds the clock can advance between the read of the relay update
\* and the reads after it: the reads are microseconds apart, so they differ
\* only when a second begins between them, which tells only when the relay
\* timer expires at that second
ClockSteps(s, t) == IF s.relay_deactivation_time = t + 1 THEN {0, 1} ELSE {0}

\* what a reader reset of the pass at t can do: succeed or fail when the pass
\* makes one, nothing to choose when it makes none
ResetOutcomes(s, t) ==
    IF \E step \in ClockSteps(s, t) :
          ResetAttempted(check_and_deactivate_relays(s, t), t + step)
    THEN BOOLEAN ELSE {TRUE}

\* one pass of the loop reading one of `cards` or none, the store in one of
\* the cases `stores`, the clock advancing by one of `delays` up to `max_now`.
\* An exception leaving run() passes through its finally clause and ends the
\* process in main()
LoopIterationOf(cards, stores, delays, max_now) ==
    /\ pc = "loop"
    /\ \E uid \in cards \cup {None}, reset_ok \in ResetOutcomes(State, now),
          step \in ClockSteps(State, now), d \in delays :
          /\ now + step + d <= max_now
          /\ \E st \in StoreCasesFor(State, uid) \cap stores :
             \E s \in {Pass([State EXCEPT !.store = st.at_card,
                                          !.store_at_refresh = st.at_refresh,
                                          !.store_at_log = st.at_log,
                                          !.clock_step = step],
                            uid, reset_ok, now)} :
                 IF s.ev.fatal
                 THEN /\ Commit(Note(Ended(s), "fatal", TRUE))
                      /\ pc' = "exited"
                 ELSE /\ Commit(s)
                      /\ pc' = IF s.ev.restarted THEN "init" ELSE "loop"
          /\ now' = now + step + d

\* the passes that may read any of the Cards, the store in any of its cases
LoopIterationWith(delays, max_now) ==
    LoopIterationOf(Cards, StoreCases, delays, max_now)

LoopIteration == LoopIterationWith(Delays, MaxNow)

\* KeyboardInterrupt: the finally clause of run() calls cleanup() and the
\* process ends
Interrupt ==
    /\ pc = "loop"
    /\ pc' = "exited"
    /\ Commit(Ended(State))
    /\ UNCHANGED now

\* the administration page sets the scan_mode setting (ui/app.py)
SetScanMode ==
    /\ \E enabled \in BOOLEAN :
          settings' = [settings EXCEPT !.scan_mode = IF enabled THEN "1" ELSE "0"]
    /\ UNCHANGED <<now, pc, env_master, master_token_id, master_mode, scan_mode, lock_until_epoch,
                   security_lock_until_epoch, invalid_attempt_timestamps,
                   relay_deactivation_time, last_used_time, last_scan_time,
                   last_nfc_reset_time, relay, led, users, usage_log, ev, updater>>

Next == RunStart \/ LoopIteration \/ Interrupt \/ SetScanMode

Spec == Init /\ [][Next]_vars

\* up to the periodic interval the passes are 15 minutes apart; after it they
\* fall on the second before a 90 s relay timer expires and on that second
HealthDelays ==
    IF now < StartEpoch + NFC_PERIODIC_RESET_INTERVAL
    THEN {0, NFC_WATCHDOG_TIMEOUT}
    ELSE {0, LONG_ACTIVATION_SECONDS - 1, LONG_ACTIVATION_SECONDS}

\* the reader-maintenance runs read the master card, a usable token and a
\* barred one, with the store working
HealthCards == {MasterCard, "A", "B"}

HealthStores == {c \in StoreCases : c.at_refresh = StoreOk /\ c.at_log = StoreOk}

\* the same machine paced by HealthDelays, long enough for the reader resets
HealthIteration ==
    LoopIterationOf(HealthCards, HealthStores, HealthDelays, StartEpoch + HealthHorizon)

NextHealth == RunStart \/ HealthIteration \/ Interrupt \/ SetScanMode

SpecHealth == Init /\ [][NextHealth]_vars

\* the same machine paced by TimerDelays: the passes fall on the second the
\* first relay timer expires and on the second after it
TimerIteration == LoopIterationWith(TimerDelays, StartEpoch + TimerHorizon)

NextTimer == RunStart \/ TimerIteration \/ Interrupt \/ SetScanMode

SpecTimer == Init /\ [][NextTimer]_vars

\* the values MASTER_TOKEN_ID and the master_token_id setting can have: unset,
\* empty, the master card, the token of a user
MasterValues == {None, "", MasterCard, "A"}

\* the process starts with any of the MasterValues in the environment and in
\* the store
InitMaster == \E env \in MasterValues, db_master \in MasterValues : InitWith(env, db_master)

\* the passes are LOCKOUT_SECONDS apart or read the same second, so that a
\* security lockout begins and expires
LockoutDelays == {0, LOCKOUT_SECONDS}

LockoutCards == {MasterCard, "A", "U"}

LockoutIteration ==
    LoopIterationOf(LockoutCards, HealthStores, LockoutDelays, StartEpoch + LockoutHorizon)

NextLockout == RunStart \/ LockoutIteration \/ Interrupt \/ SetScanMode

SpecLockout == InitMaster /\ [][NextLockout]_vars

\* the passes are three hours, or three hours and a second, apart or read
\* the same second
IdleDelays == {0, LONG_IDLE_SECONDS, LONG_IDLE_SECONDS + 1}

IdleIteration ==
    LoopIterationOf(HealthCards, HealthStores, IdleDelays, StartEpoch + IdleHorizon)

NextIdle == RunStart \/ IdleIteration \/ Interrupt \/ SetScanMode

SpecIdle == Init /\ [][NextIdle]_vars

\* ------------------------------------------------------------ updater.py
\* update_version_info(..., status, ...): the status is written to the
\* settings table unless the write fails (the failure is logged and ignored)
update_version_info(u, status, written) ==
    IF written THEN [u EXCEPT !.last_update_status = status, !.recorded = status] ELSE u

\* return code from main()
Return(u, code) == [u EXCEPT !.pc = "returned", !.exit_code = code]

\* git reset --hard previous_commit: HEAD is previous_commit when it works
rollback_update(u, ok) == IF ok THEN [u EXCEPT !.HEAD = u.current_commit] ELSE u

\* if not check_internet_connection(): ... return 0
CheckInternet ==
    /\ updater.pc = "main"
    /\ \E reachable \in BOOLEAN, written \in BOOLEAN :
          updater' =
              IF reachable THEN [updater EXCEPT !.pc = "current"]
              ELSE Return(update_version_info(updater, "no_internet", written), 0)

\* current_commit = get_current_commit(): git rev-parse HEAD, None on failure
GetCurrentCommit ==
    /\ updater.pc = "current"
    /\ \E ok \in BOOLEAN, written \in BOOLEAN :
          updater' =
              IF ok THEN [updater EXCEPT !.pc = "remote", !.current_commit = updater.HEAD]
              ELSE Return(update_version_info(updater, "error", written), 1)

\* remote_commit = get_remote_commit(): git fetch origin main and git
\* rev-parse origin/main, None on failure; the same commit: up to date
GetRemoteCommit ==
    /\ updater.pc = "remote"
    /\ \E ok \in BOOLEAN, tip \in Commits, written \in BOOLEAN :
          updater' =
              IF ~ok THEN Return(update_version_info(updater, "error", written), 1)
              ELSE IF updater.current_commit = tip
              THEN Return(update_version_info([updater EXCEPT !.remote_commit = tip],
                                              "up_to_date", written), 0)
              ELSE [updater EXCEPT !.pc = "apply", !.remote_commit = tip]

\* apply_update(): git pull origin main.  A pull that works leaves HEAD at
\* the fetched commit, at another one (origin/main has moved on, or the
\* local history needed a merge) or where it was (the local history already
\* holds the fetched commit); a pull that fails leaves HEAD alone
ApplyUpdate ==
    /\ updater.pc = "apply"
    /\ \E ok \in BOOLEAN, head \in Commits, written \in BOOLEAN :
          updater' =
              IF ok THEN [updater EXCEPT !.pc = "verify", !.HEAD = head]
              ELSE Return(update_version_info(updater, "error", written), 1)

\* new_commit = get_current_commit(); if not new_commit or new_commit !=
\* remote_commit: rollback_update(current_commit), its result not read
VerifyUpdate ==
    /\ updater.pc = "verify"
    /\ \E ok \in BOOLEAN, rolled_back \in BOOLEAN, written \in BOOLEAN :
          LET new_commit == IF ok THEN updater.HEAD ELSE None
              u == [updater EXCEPT !.new_commit = new_commit]
          IN  updater' =
                  IF new_commit = None \/ new_commit # u.remote_commit
                  THEN Return(update_version_info(rollback_update(u, rolled_back),
                                                  "error", written), 1)
                  ELSE [u EXCEPT !.pc = "validate"]

\* run_validation_tests(), and the rollback when they fail
ValidateUpdate ==
    /\ updater.pc = "validate"
    /\ \E passed \in BOOLEAN, rolled_back \in BOOLEAN, written \in BOOLEAN :
          updater' =
              IF passed
              THEN Return(update_version_info([updater EXCEPT !.validated = TRUE],
                                              "success", written), 0)
              ELSE IF rolled_back
              THEN Return(update_version_info(rollback_update(updater, TRUE),
                                              "rollback", written), 1)
              ELSE Return(update_version_info(rollback_update(updater, FALSE),
                                              "error", written), 2)

\* the script is run again: python3 updater.py
StartUpdater ==
    /\ updater.pc = "returned"
    /\ updater' = UpdaterStarted(updater.HEAD, updater.last_update_status)

\* the controller is not running while the updater is followed
ControllerAtRest ==
    UNCHANGED <<now, pc, env_master, master_token_id, master_mode, scan_mode,
                lock_until_epoch, security_lock_until_epoch,
                invalid_attempt_timestamps, relay_deactivation_time, last_used_time,
                last_scan_time, last_nfc_reset_time, relay, led, users, usage_log,
                settings, ev>>

NextUpdater ==
    /\ \/ CheckInternet
       \/ GetCurrentCommit
       \/ GetRemoteCommit
       \/ ApplyUpdate
       \/ VerifyUpdate
       \/ ValidateUpdate
       \/ StartUpdater
    /\ ControllerAtRest

SpecUpdater == Init /\ [][NextUpdater]_vars

\* ====================================================================
\* Properties
\* ====================================================================
InLoop == pc = "loop"

NonMasterCards == Cards \ {master_token_id}

\* the pass the loop makes from the current state when the reader returns uid
PassWith(uid) == Pass(State, uid, TRUE, now)

\* the record of uid makes the token usable: it exists, active and not barred
RecordUsable(uid) ==
    /\ uid \in DOMAIN users
    /\ users[uid].active = 1
    /\ users[uid].barred = 0

\* a scan of uid now is a denied normal-mode scan
WouldBeDenied(uid) ==
    /\ uid \in NonMasterCards
    /\ ~(now < security_lock_until_epoch)
    /\ ~master_mode
    /\ ~(now < lock_until_epoch)
    /\ settings.scan_mode # "1"
    /\ ~RecordUsable(uid)

InLast60(x) == x >= now - 60

\* the denied scans of the last 60 seconds
RecentInvalid == SelectSeq(invalid_attempt_timestamps, InLast60)

\* C1: a denied scan at time t that has more than 10 denied scans within
\* the last 60 s (itself included) sets security_lock_until to t + 300 and
\* empties the window; a denied scan with 10 or fewer only joins the window
\* (entries older than 60 s dropped) and sets no lockout; no other scan
\* and no scan-less pass sets a lockout or adds to the window.
C1_LockoutAtEleventhInvalid ==
    InLoop =>
        \A uid \in Cards \cup {None} :
            LET a == PassWith(uid)
            IN  IF uid # None /\ WouldBeDenied(uid)
                THEN IF Len(RecentInvalid) + 1 > 10
                     THEN /\ a.security_lock_until_epoch = now + 300
                          /\ a.invalid_attempt_timestamps = <<>>
                     ELSE /\ a.security_lock_until_epoch = security_lock_until_epoch
                          /\ a.invalid_attempt_timestamps = Append(RecentInvalid, now)
                ELSE /\ a.security_lock_until_epoch \in {security_lock_until_epoch, 0}
                     /\ a.invalid_attempt_timestamps \in {invalid_attempt_timestamps, <<>>}

\* the 11th denied scan has just started a lockout
C1_Witness ==
    /\ InLoop
    /\ ev.branch = "denied"
    /\ security_lock_until_epoch = now + 300
    /\ invalid_attempt_timestamps = <<>>

\* C2 as claimed: the 11th invalid scan within 60 s, and every later
\* non-master scan while the lockout lasts, is rejected without a call of
\* get_user.
C2_EleventhRejectedWithoutLookup ==
    InLoop =>
        \A uid \in NonMasterCards :
            (\/ WouldBeDenied(uid) /\ Len(RecentInvalid) >= 10
             \/ now < security_lock_until_epoch)
            => PassWith(uid).ev.get_user_calls = 0

\* C2 amended: the 11th invalid scan within 60 s is looked up once, denied,
\* and starts the lockout; every non-master scan after it, up to 299 s
\* later, and every non-master scan while a lockout is in effect, is
\* rejected by the lockout rule without a call of get_user.
C2_LaterScansRejectedWithoutLookup ==
    InLoop =>
        \A uid \in NonMasterCards :
            LET a == PassWith(uid)
            IN  /\ (WouldBeDenied(uid) /\ Len(RecentInvalid) >= 10) =>
                      /\ a.ev.branch = "denied"
                      /\ a.ev.get_user_calls = 1
                      /\ \A later \in NonMasterCards, dt \in {0, 60, 299} :
                            LET b == Pass(a, later, TRUE, now + dt)
                            IN  /\ b.ev.branch = "locked"
                                /\ b.ev.get_user_calls = 0
                /\ (now < security_lock_until_epoch) =>
                      /\ a.ev.branch = "locked"
                      /\ a.ev.get_user_calls = 0

\* the scan that started the lockout was looked up
C2_Witness ==
    /\ InLoop
    /\ ev.branch = "denied"
    /\ ev.get_user_calls = 1
    /\ now < security_lock_until_epoch

\* C3: while now < security_lock_until a scan of a non-master card, in
\* either enrolment mode, makes no lookup, records no invalid attempt,
\* creates no pending record, logs no usage and leaves the relay outputs,
\* the relay timer, the engagement lock and master_mode as they are.
C3_LockedScanIgnored ==
    (InLoop /\ now < security_lock_until_epoch) =>
        \A uid \in NonMasterCards, enrolment \in BOOLEAN :
            LET s == [State EXCEPT !.scan_mode = enrolment, !.ev = NoEvent]
                a == HandleCard(s, uid, now)
            IN  /\ a.ev.get_user_calls = 0
                /\ a.invalid_attempt_timestamps = invalid_attempt_timestamps
                /\ a.security_lock_until_epoch = security_lock_until_epoch
                /\ a.users = users
                /\ a.usage_log = usage_log
                /\ a.settings = settings
                /\ a.relay = relay
                /\ a.relay_deactivation_time = relay_deactivation_time
                /\ a.lock_until_epoch = lock_until_epoch
                /\ a.last_used_time = last_used_time
                /\ a.master_mode = master_mode

\* a non-master card was scanned, and ignored, during a lockout
C3_Witness ==
    /\ InLoop
    /\ ev.branch = "locked"
    /\ now < security_lock_until_epoch

\* C4 as claimed: between passes of the loop both indicator lights are off
\* whenever a security lockout is in effect.
C4_LightsOffWhileLocked ==
    (InLoop /\ now < security_lock_until_epoch) => led = LedPattern("off")

\* C5 as claimed: every presentation of the master card leaves
\* security_lock_until unset and the invalid-attempt window empty.
C5_MasterAlwaysClears ==
    (InLoop /\ ev.branch = "master") =>
        /\ security_lock_until_epoch = 0
        /\ invalid_attempt_timestamps = <<>>

\* C5 amended: a presentation of the master card while a lockout is in
\* effect leaves security_lock_until at 0 and the window empty; a
\* presentation while none is in effect leaves security_lock_until and the
\* window as they were.
C5_MasterClearsOnlyActiveLockout ==
    InLoop =>
        LET a == PassWith(master_token_id)
        IN  /\ a.ev.branch = "master"
            /\ IF now < security_lock_until_epoch
               THEN /\ a.security_lock_until_epoch = 0
                    /\ a.invalid_attempt_timestamps = <<>>
                    /\ a.ev.cleared
               ELSE /\ a.security_lock_until_epoch = security_lock_until_epoch
                    /\ a.invalid_attempt_timestamps = invalid_attempt_timestamps
                    /\ ~a.ev.cleared

\* the master card was presented with no lockout in effect and the
\* attempts recorded before it are still in the window
C5_Witness ==
    /\ InLoop
    /\ ev.branch = "master"
    /\ ~ev.cleared
    /\ invalid_attempt_timestamps # <<>>

\* n scans of uid in a row at clock value t
RECURSIVE Scans(_, _, _, _)
Scans(s, uid, n, t) ==
    IF n = 0 THEN s ELSE Scans(HandleCard(s, uid, t), uid, n - 1, t)

\* C6: the master card presented during a lockout clears it and empties
\* the window; afterwards, with master mode still on or switched off again,
\* up to 10 scans of any non-master card start no lockout, and in normal
\* mode the 11th scan of an unusable token within 60 s starts one.
C6_NoRelockAfterMasterClear ==
    (InLoop /\ now < security_lock_until_epoch) =>
        LET a1 == HandleCard(State, master_token_id, now)
            a2 == HandleCard(a1, master_token_id, now)
        IN  /\ a1.security_lock_until_epoch = 0
            /\ a1.invalid_attempt_timestamps = <<>>
            /\ \A uid \in NonMasterCards, n \in 1..10 :
                  /\ Scans(a1, uid, n, now).security_lock_until_epoch = 0
                  /\ Scans(a2, uid, n, now).security_lock_until_epoch = 0
            /\ \A uid \in NonMasterCards :
                  (~a2.master_mode /\ ~a2.scan_mode /\ ~RecordUsable(uid)) =>
                      Scans(a2, uid, 11, now).security_lock_until_epoch = now + 300

\* the master card has just cleared a lockout
C6_Witness ==
    /\ InLoop
    /\ ev.branch = "master"
    /\ ev.cleared
    /\ security_lock_until_epoch = 0

\* C7 as claimed: while master_mode is true all relay outputs are ON.
C7_MasterModeRelaysOn ==
    (InLoop /\ master_mode) => relay = AllRelays(TRUE)

\* C8 as claimed: while the relay timer is set and in the future all relay
\* outputs are ON.
C8_TimerPendingRelaysOn ==
    (InLoop /\ relay_deactivation_time > 0 /\ now < relay_deactivation_time)
        => relay = AllRelays(TRUE)

\* C9 as claimed: from a state with master_mode false, enter_master_mode
\* followed by exit_master_mode restores the indicator and the relay
\* outputs that held before.
C9_EnterExitRestores ==
    (InLoop /\ ~master_mode) =>
        LET s == exit_master_mode(enter_master_mode(State))
        IN  /\ s.led = led
            /\ s.relay = relay

\* C10: enter_master_mode with master_mode already true, and
\* exit_master_mode with it already false, change nothing; so entering
\* twice equals entering once and exiting twice equals exiting once.
C10_MasterModeIdempotent ==
    InLoop =>
        /\ master_mode => enter_master_mode(State) = State
        /\ ~master_mode => exit_master_mode(State) = State
        /\ enter_master_mode(enter_master_mode(State)) = enter_master_mode(State)
        /\ exit_master_mode(exit_master_mode(State)) = exit_master_mode(State)

\* master mode is on while the outputs differ from what entering sets
C10_Witness ==
    /\ InLoop
    /\ master_mode
    /\ \/ led # LedPattern("master")
       \/ relay # AllRelays(TRUE)

\* the state as the relay update leaves it once the timer has expired
TimerCleared(s) ==
    [s EXCEPT !.relay = AllRelays(FALSE),
              !.relay_deactivation_time = 0,
              !.led = LedPattern("ready")]

\* C11: check_and_deactivate_relays at time t with the timer set and
\* t >= relay_deactivation_time switches every relay OFF, clears the timer
\* and sets the indicator to ready, changing nothing else; after that a
\* further update at any later time changes nothing.  Before the expiry, or
\* with no timer set, the update changes nothing.
C11_TickIdempotentAfterExpiry ==
    InLoop =>
        \A t \in {now, now + 1, relay_deactivation_time, relay_deactivation_time + 5} :
            LET a == check_and_deactivate_relays(State, t)
            IN  IF relay_deactivation_time > 0 /\ t >= relay_deactivation_time
                THEN /\ a = TimerCleared(State)
                     /\ \A u \in {t, t + 1, t + 60} :
                           check_and_deactivate_relays(a, u) = a
                ELSE a = State

\* a pass without a card has found the timer expired and switched the relays off
C11_Witness ==
    /\ InLoop
    /\ ev.branch = "none"
    /\ lock_until_epoch > 0
    /\ relay_deactivation_time = 0
    /\ relay = AllRelays(FALSE)
    /\ led = LedPattern("ready")

\* normal mode with nothing in the way of an evaluation: no master mode, no
\* security lockout, no engagement lock, enrolment switched off
IdleNormal ==
    /\ InLoop
    /\ ~master_mode
    /\ ~(now < security_lock_until_epoch)
    /\ ~(now < lock_until_epoch)
    /\ settings.scan_mode # "1"

Evaluated == {"granted", "denied"}

\* the use of the machine by the usable token uid, scanned now: the grant,
\* the D seconds with the relays ON, the update at now + D, and the scans
\* that follow; at_expiry tells whether a scan in the pass at now + D is
\* evaluated
AuthorizedUse(uid, at_expiry) ==
    LET g == PassWith(uid)
        D == g.relay_deactivation_time - now
        x == Pass(g, None, TRUE, now + D)
    IN  /\ g.ev.branch = "granted"
        /\ g.usage_log = Append(usage_log, uid)
        /\ D \in {SHORT_ACTIVATION_SECONDS, LONG_ACTIVATION_SECONDS}
        /\ g.relay = AllRelays(TRUE)
        /\ g.led = LedPattern("active")
        /\ \A t \in {now, now + D - 1} :
              LET e == Pass(g, None, TRUE, t)
              IN  e.relay = AllRelays(TRUE) /\ e.led = LedPattern("active")
        /\ x.relay = AllRelays(FALSE)
        /\ x.led = LedPattern("ready")
        /\ \A v \in NonMasterCards :
              /\ (Pass(g, v, TRUE, now + D).ev.branch \in Evaluated) = at_expiry
              /\ \A t \in {now + D + 1, now + D + 60} :
                    Pass(x, v, TRUE, t).ev.branch \in Evaluated

\* C12 as claimed: a usable token scanned in idle normal mode is logged and
\* switches the relays ON and the indicator to green for the activation
\* duration D; once D seconds have passed and the relay update has run the
\* relays are OFF, the indicator is red, and a scan of any token from that
\* moment on is evaluated.
C12_EvaluatedFromExpiry ==
    IdleNormal =>
        \A uid \in NonMasterCards : RecordUsable(uid) => AuthorizedUse(uid, TRUE)

\* C12: the same, except that the engagement lock outlasts the relay timer
\* by one second: a scan in the pass at now + D, after the relay update of
\* that pass, is still ignored, and scans are evaluated from now + D + 1 on.
C12_EvaluatedOneSecondAfterExpiry ==
    IdleNormal =>
        \A uid \in NonMasterCards : RecordUsable(uid) => AuthorizedUse(uid, FALSE)

\* a scan has been ignored as engaged in a pass that had switched the relays off
C12_Witness ==
    /\ InLoop
    /\ ev.branch = "engaged"
    /\ relay_deactivation_time = 0
    /\ relay = AllRelays(FALSE)
    /\ led = LedPattern("ready")

\* n scans of uid in a row, the first at clock value t, each gap seconds
\* after the one before
RECURSIVE ScansSpaced(_, _, _, _, _)
ScansSpaced(s, uid, n, t, gap) ==
    IF n = 0 THEN s
    ELSE HandleCard(ScansSpaced(s, uid, n - 1, t, gap), uid, t + (n - 1) * gap)

\* the non-master tokens that normal mode denies
Unauthorized == {uid \in NonMasterCards : ~RecordUsable(uid)}

BarredTokens == {uid \in NonMasterCards : uid \in DOMAIN users /\ users[uid].barred = 1}

\* C13: in normal mode, with no denied scan in the last 60 s, ten scans of
\* a barred token in a row within 10 s are each denied and start no
\* lockout; the eleventh denied scan starts the lockout whichever
\* unauthorized token it is for (barred, inactive or without a record).
C13_WindowIsGlobal ==
    (InLoop /\ ~master_mode /\ ~scan_mode /\ RecentInvalid = <<>>
        /\ ~(now < security_lock_until_epoch) /\ ~(now < lock_until_epoch)) =>
        \A gap \in {0, 1}, b \in BarredTokens :
            /\ \A n \in 1..10 :
                  LET a == ScansSpaced(State, b, n, now, gap)
                  IN  /\ a.ev.branch = "denied"
                      /\ a.security_lock_until_epoch = security_lock_until_epoch
                      /\ Len(a.invalid_attempt_timestamps) = n
            /\ \A u \in Unauthorized :
                  LET a == HandleCard(ScansSpaced(State, b, 10, now, gap), u,
                                      now + 10 * gap)
                  IN  /\ a.ev.branch = "denied"
                      /\ a.security_lock_until_epoch = now + 10 * gap + LOCKOUT_SECONDS

\* ten scans have been denied in a row and no lockout has started
C13_Witness ==
    /\ InLoop
    /\ ev.branch = "denied"
    /\ Len(invalid_attempt_timestamps) = 10
    /\ security_lock_until_epoch = 0

\* the rule that decides a scan of the non-master card uid at time t in
\* state s, the rules tried in the order of C14
FirstApplicableRule(s, uid, t) ==
    IF t < s.security_lock_until_epoch THEN "locked"
    ELSE IF s.master_mode THEN "master_mode"
    ELSE IF t < s.lock_until_epoch THEN "engaged"
    ELSE IF s.scan_mode THEN "scan_mode"
    ELSE IF uid \in DOMAIN s.users /\ s.users[uid].active = 1 /\ s.users[uid].barred = 0
    THEN "granted"
    ELSE "denied"

\* a differs from s in nothing but the fields named here
SameButScanTime(a, s) == [a EXCEPT !.ev = s.ev, !.last_scan_time = s.last_scan_time] = s

SameButLed(a, s) == SameButScanTime([a EXCEPT !.led = s.led], s)

\* C14: a scan of a non-master card is decided by the first rule that
\* applies, in the order security lockout, master mode, engagement lock,
\* enrolment, normal authorization, and has no effect of a later rule: the
\* lockout changes only the indicator (off) and last_scan_time, master
\* mode and the engagement lock change only last_scan_time, enrolment logs
\* no usage, records no invalid attempt and moves no relay, timer or lock.
C14_FirstApplicableRuleDecides ==
    InLoop =>
        \A uid \in NonMasterCards, mode \in BOOLEAN :
            LET s == [State EXCEPT !.scan_mode = mode]
                a == HandleCard(s, uid, now)
                rule == FirstApplicableRule(s, uid, now)
            IN  /\ a.ev.branch = rule
                /\ rule = "locked" => SameButLed(a, s) /\ a.led = LedPattern("off")
                /\ rule \in {"master_mode", "engaged"} => SameButScanTime(a, s)
                /\ rule = "scan_mode" =>
                      /\ a.usage_log = s.usage_log
                      /\ a.invalid_attempt_timestamps = s.invalid_attempt_timestamps
                      /\ a.security_lock_until_epoch = s.security_lock_until_epoch
                      /\ a.lock_until_epoch = s.lock_until_epoch
                      /\ a.relay_deactivation_time = s.relay_deactivation_time
                      /\ a.relay = s.relay
                      /\ a.led = s.led
                /\ rule \in Evaluated => a.users = s.users /\ a.settings = s.settings

\* a non-master card has been ignored in master mode while the engagement
\* lock was in effect and enrolment was on
C14_Witness ==
    /\ InLoop
    /\ ev.branch = "master_mode"
    /\ master_mode
    /\ scan_mode
    /\ now < lock_until_epoch

\* C15: in every state of the loop (security lockout, engagement lock,
\* relay timer, enrolment) a pass that reads the master card toggles
\* master_mode; the scan makes no lookup, adds no invalid attempt, starts
\* no lockout, logs no usage and creates no pending record.
C15_MasterAlwaysToggles ==
    InLoop =>
        \A mode \in {"0", "1"} :
            LET s == [State EXCEPT !.settings = [settings EXCEPT !.scan_mode = mode]]
                a == Pass(s, master_token_id, TRUE, now)
            IN  /\ a.ev.branch = "master"
                /\ a.master_mode = ~master_mode
                /\ a.ev.get_user_calls = 0
                /\ a.invalid_attempt_timestamps \in {invalid_attempt_timestamps, <<>>}
                /\ a.security_lock_until_epoch \in {security_lock_until_epoch, 0}
                /\ a.usage_log = usage_log
                /\ a.users = users

\* the master card has switched master mode on during a security lockout
\* with enrolment on
C15_Witness ==
    /\ InLoop
    /\ ev.branch = "master"
    /\ ev.cleared
    /\ scan_mode
    /\ master_mode

\* the users table with the row of uid replaced by row
WithRow(uid, row) ==
    [c \in DOMAIN users \cup {uid} |-> IF c = uid THEN row ELSE users[c]]

WithoutRow(uid) == [c \in DOMAIN users \ {uid} |-> users[c]]

\* C16: a non-master scan that reaches normal-mode evaluation is granted
\* exactly when the token has a record with active = 1 and barred = 0, and
\* denied otherwise; is_token_authorized is true for exactly that record
\* among no record and the four combinations of active and barred (the
\* pending placeholder being active = 0, barred = 1).
C16_AuthorizedIffActiveNotBarred ==
    InLoop =>
        \A uid \in NonMasterCards :
            LET s == [State EXCEPT !.scan_mode = FALSE]
            IN  /\ IdleNormal =>
                      PassWith(uid).ev.branch =
                          IF RecordUsable(uid) THEN "granted" ELSE "denied"
                /\ is_token_authorized(s, uid) = RecordUsable(uid)
                /\ ~is_token_authorized([s EXCEPT !.users = WithoutRow(uid)], uid)
                /\ \A active \in {0, 1}, barred \in {0, 1} :
                      is_token_authorized(
                          [s EXCEPT !.users =
                              WithRow(uid, [active |-> active, barred |-> barred,
                                            name |-> "user"])],
                          uid)
                      = (active = 1 /\ barred = 0)

\* a scan has been looked up and denied while a pending placeholder exists
C16_Witness ==
    /\ InLoop
    /\ ev.branch = "denied"
    /\ ev.get_user_calls = 1
    /\ \E c \in DOMAIN users : users[c].name = "Pending"

\* the activation a grant at the current state chooses
DurationNow ==
    IF now - last_used_time > LONG_IDLE_SECONDS
    THEN LONG_ACTIVATION_SECONDS ELSE SHORT_ACTIVATION_SECONDS

\* C17: a granted scan at time now sets the indicator to active, every
\* relay ON, relay_deactivation_time = now + duration and lock_until_epoch
\* = now + duration + 1.  So the lock ends strictly after the timer: as
\* long as the timer is pending a non-master scan is ignored as engaged, and
\* the lock is still in effect in the pass that switches the relays off.
C17_GrantSetsTimerAndLock ==
    InLoop =>
        /\ relay_deactivation_time > 0 =>
              lock_until_epoch = relay_deactivation_time + 1
        /\ IdleNormal =>
              \A uid \in NonMasterCards :
                  RecordUsable(uid) =>
                      LET a == PassWith(uid)
                          expiry == now + DurationNow
                          x == Pass(a, None, TRUE, expiry)
                      IN  /\ a.ev.branch = "granted"
                          /\ a.led = LedPattern("active")
                          /\ a.relay = AllRelays(TRUE)
                          /\ a.relay_deactivation_time = expiry
                          /\ a.lock_until_epoch = expiry + 1
                          /\ \A t \in {now, now + 1, expiry - 1}, v \in NonMasterCards :
                                LET e == Pass(a, v, TRUE, t)
                                IN  /\ e.ev.branch = "engaged"
                                    /\ e.relay = AllRelays(TRUE)
                          /\ x.relay = AllRelays(FALSE)
                          /\ expiry < x.lock_until_epoch

\* a scan has just been granted: green, relays ON, timer and lock set
C17_Witness ==
    /\ InLoop
    /\ ev.branch = "granted"
    /\ led = LedPattern("active")
    /\ relay = AllRelays(TRUE)
    /\ relay_deactivation_time > 0
    /\ lock_until_epoch = relay_deactivation_time + 1

\* C18: when the usage-log write of a granted scan fails, by returning
\* False or by raising, no usage row is written and everything else is as
\* after a successful write: indicator, relays, timer, engagement lock and
\* last_used_time; no exception leaves the loop.
C18_LogFailureStillActivates ==
    IdleNormal =>
        \A uid \in NonMasterCards, failure \in {StoreError, StoreRaise} :
            RecordUsable(uid) =>
                LET ok == PassWith(uid)
                    f == Pass([State EXCEPT !.store_at_log = failure], uid, TRUE, now)
                IN  /\ ok.usage_log = Append(usage_log, uid)
                    /\ f.ev.branch = "granted"
                    /\ f.usage_log = usage_log
                    /\ f.relay = AllRelays(TRUE)
                    /\ f.relay_deactivation_time = now + DurationNow
                    /\ f.lock_until_epoch = now + DurationNow + 1
                    /\ ~f.ev.fatal
                    /\ ~f.ev.restarted
                    /\ [f EXCEPT !.usage_log = ok.usage_log,
                                 !.store_at_log = StoreOk] = ok

\* a scan has been granted and the relays are ON with no usage row written
C18_Witness ==
    /\ InLoop
    /\ ev.branch = "granted"
    /\ usage_log = <<>>
    /\ relay = AllRelays(TRUE)
    /\ now < lock_until_epoch

\* the clock values at which passes are tried while the engagement lock of
\* the current state is in effect: now and the last second of the lock
LockedSeconds == {t \in {now, lock_until_epoch - 1} : now <= t /\ t < lock_until_epoch}

\* C19: while the engagement lock is in effect a pass that reads a
\* non-master card leaves the state a pass without a card leaves, except
\* for last_scan_time: no lookup, no usage row, no invalid attempt, and the
\* relay timer and the lock neither extended nor restarted.
C19_EngagedScanIgnored ==
    InLoop =>
        \A t \in LockedSeconds, uid \in NonMasterCards :
            LET a == Pass(State, uid, TRUE, t)
                n == Pass(State, None, TRUE, t)
            IN  /\ a.ev.get_user_calls = 0
                /\ a.usage_log = usage_log
                /\ a.invalid_attempt_timestamps = invalid_attempt_timestamps
                /\ a.lock_until_epoch = lock_until_epoch
                /\ a.relay_deactivation_time = n.relay_deactivation_time
                /\ a.relay_deactivation_time \in {relay_deactivation_time, 0}
                /\ SameButScanTime(a, n)

\* a scan has been ignored as engaged with the relays ON
C19_Witness ==
    /\ InLoop
    /\ ev.branch = "engaged"
    /\ relay = AllRelays(TRUE)
    /\ led = LedPattern("active")
    /\ now < lock_until_epoch

PendingRow == [active |-> 0, barred |-> 1, name |-> "Pending"]

\* C20: in enrolment mode a scan of a non-master token without a record
\* adds one record for it, inactive, barred and with the placeholder name,
\* and leaves every other record alone; further scans of the token change
\* the table no more; a scan of a token that has a record changes no
\* record, and add_pending_user itself leaves an existing record as it is.
C20_EnrolmentCreatesOnePending ==
    (InLoop /\ ~master_mode /\ ~(now < security_lock_until_epoch)
        /\ ~(now < lock_until_epoch)) =>
        \A uid \in NonMasterCards :
            LET s == [State EXCEPT !.scan_mode = TRUE]
                a == HandleCard(s, uid, now)
            IN  /\ a.ev.branch = "scan_mode"
                /\ IF uid \in DOMAIN users
                   THEN /\ a.users = users
                        /\ db_add_pending_user(s, uid).users = users
                   ELSE /\ DOMAIN a.users = DOMAIN users \cup {uid}
                        /\ a.users[uid] = PendingRow
                        /\ \A c \in DOMAIN users : a.users[c] = users[c]
                /\ \A k \in 1..2 : Scans(a, uid, k, now).users = a.users

\* an enrolment scan has been handled and the token U has its pending record
C20_Witness ==
    /\ InLoop
    /\ ev.branch = "scan_mode"
    /\ "U" \in DOMAIN users
    /\ users["U"] = PendingRow

\* the fields an authorization or a denial writes
AccessFields(s) ==
    <<s.relay, s.led, s.usage_log, s.lock_until_epoch, s.relay_deactivation_time,
      s.last_used_time, s.invalid_attempt_timestamps, s.security_lock_until_epoch>>

\* C21: with the enrolment flag on, a scan of a non-master card, usable
\* tokens included, is never granted and never denied: it moves no relay,
\* writes no usage row, sets no engagement lock and no relay timer and
\* adds no invalid attempt; a pass reading it leaves these fields as a pass
\* without a card leaves them.
C21_EnrolmentNeverAuthorizes ==
    InLoop =>
        \A uid \in NonMasterCards :
            /\ LET s == [State EXCEPT !.scan_mode = TRUE]
                   a == HandleCard(s, uid, now)
               IN  /\ a.ev.branch \notin Evaluated
                   /\ a.relay = s.relay
                   /\ a.usage_log = s.usage_log
                   /\ a.lock_until_epoch = s.lock_until_epoch
                   /\ a.relay_deactivation_time = s.relay_deactivation_time
                   /\ a.invalid_attempt_timestamps = s.invalid_attempt_timestamps
                   /\ a.security_lock_until_epoch = s.security_lock_until_epoch
            /\ settings.scan_mode = "1" =>
                  /\ PassWith(uid).ev.branch \notin Evaluated
                  /\ \/ AccessFields(PassWith(uid)) = AccessFields(PassWith(None))
                     \/ /\ PassWith(uid).ev.branch = "locked"
                        /\ PassWith(uid).relay = PassWith(None).relay

\* the usable token A has been captured in enrolment mode: the relays are
\* off and no usage row exists
C21_Witness ==
    /\ InLoop
    /\ ev.branch = "scan_mode"
    /\ settings.last_scanned_token = "A"
    /\ relay = AllRelays(FALSE)
    /\ usage_log = <<>>
    /\ lock_until_epoch = 0

\* C22 as claimed: a reader reset is performed only when master mode is off
\* and no relay is ON, however the clock advances between the relay update
\* and the maintenance block: after a pass without a card that made a
\* reset, master mode is off and every relay is OFF.
C22_ResetOnlyWhenNotEngaged ==
    (InLoop /\ ev.reset # "none" /\ ev.branch = "none") =>
        /\ ~master_mode
        /\ relay = AllRelays(FALSE)

\* the clock values at which the maintenance block is tried: now, and the
\* first seconds at which the watchdog and the periodic interval, counted
\* from now, have and have not passed
HealthTimes ==
    {now, now + NFC_WATCHDOG_TIMEOUT, now + NFC_WATCHDOG_TIMEOUT + 1,
     now + NFC_PERIODIC_RESET_INTERVAL, now + NFC_PERIODIC_RESET_INTERVAL + 1}

PeriodicHolds(s, t) == t - s.last_nfc_reset_time > 30 * 60

WatchdogHolds(s, t) == t - s.last_scan_time > 15 * 60

\* the appliance is engaged: master mode, or a relay timer not yet expired
Engaged(s, t) ==
    s.master_mode \/ (s.relay_deactivation_time > 0 /\ t < s.relay_deactivation_time)

\* s with the reader reset at t and nothing else changed
ResetAt(s, reason, t) ==
    [s EXCEPT !.last_scan_time = t, !.last_nfc_reset_time = t,
              !.ev = [s.ev EXCEPT !.reset = reason]]

\* C23: the maintenance block of a pass makes at most one reset; when the
\* periodic condition holds the reset made is the periodic one, also when
\* the watchdog condition holds too, and when the periodic reset is deferred
\* the watchdog is not tried; a watchdog reset is made only when the
\* periodic condition does not hold.
C23_PeriodicBeforeWatchdog ==
    InLoop =>
        \A t \in HealthTimes :
            LET s == check_and_deactivate_relays([State EXCEPT !.ev = NoEvent], t)
                m == Maintenance(s, t)
            IN  /\ m \in {s, ResetAt(s, "periodic", t), ResetAt(s, "watchdog", t)}
                /\ PeriodicHolds(s, t) =>
                      m = IF Engaged(s, t) THEN s ELSE ResetAt(s, "periodic", t)
                /\ m.ev.reset = "watchdog" => ~PeriodicHolds(s, t) /\ WatchdogHolds(s, t)
                /\ (~PeriodicHolds(s, t) /\ ~WatchdogHolds(s, t)) => m = s

\* both conditions hold, the appliance is not engaged, and the pass made
\* from this state makes the periodic reset
C23_Witness ==
    /\ InLoop
    /\ PeriodicHolds(State, now)
    /\ WatchdogHolds(State, now)
    /\ ~Engaged(check_and_deactivate_relays(State, now), now)
    /\ PassWith(None).ev.reset = "periodic"

\* C24: a trigger that is due while the appliance is engaged changes
\* nothing and is still due at the next pass; once the appliance is not
\* engaged the pass makes one reset, which sets last_nfc_reset_time and
\* last_scan_time to now and changes nothing else; after it no trigger is
\* due for the next 15 minutes, the watchdog is due after 15 minutes without
\* a scan and the periodic reset after 30 minutes.
C24_DeferredResetNoBacklog ==
    InLoop =>
        \A t \in HealthTimes :
            LET s == check_and_deactivate_relays([State EXCEPT !.ev = NoEvent], t)
                m == Maintenance(s, t)
            IN  (PeriodicHolds(s, t) \/ WatchdogHolds(s, t)) =>
                    IF Engaged(s, t)
                    THEN /\ m = s
                         /\ \A u \in {t, t + 1} : DueReset(m, u) # "none"
                    ELSE /\ m.ev.reset # "none"
                         /\ m = ResetAt(s, m.ev.reset, t)
                         /\ \A u \in {t, t + 1, t + NFC_WATCHDOG_TIMEOUT} :
                               /\ DueReset(m, u) = "none"
                               /\ Maintenance(m, u) = m
                         /\ DueReset(m, t + NFC_WATCHDOG_TIMEOUT + 1) = "watchdog"
                         /\ DueReset(m, t + NFC_PERIODIC_RESET_INTERVAL + 1) = "periodic"

\* the pass in which the relay timer expired has made the reset: the
\* engagement lock of the activation is still in effect
C24_Witness ==
    /\ InLoop
    /\ ev.reset # "none"
    /\ relay = AllRelays(FALSE)
    /\ relay_deactivation_time = 0
    /\ now < lock_until_epoch
    /\ last_nfc_reset_time = now
    /\ last_scan_time = now

\* C25: a pass whose reader reset fails restarts the process: the outputs
\* are released before the process is executed again, no card is handled
\* by the old loop, and the new controller has master mode off, no security
\* lockout, an empty invalid-attempt window, no relay timer, no engagement
\* lock and every output off; a pass whose reset succeeds does not restart.
C25_FailedResetRestarts ==
    /\ pc = "init" =>
          /\ ~master_mode
          /\ security_lock_until_epoch = 0
          /\ invalid_attempt_timestamps = <<>>
          /\ relay_deactivation_time = 0
          /\ lock_until_epoch = 0
          /\ OutputsOff(State)
    /\ InLoop =>
          \A t \in HealthTimes :
              IF ResetAttempted(check_and_deactivate_relays(State, t), t)
              THEN \A uid \in Cards \cup {None} :
                      LET p == Pass(State, uid, FALSE, t)
                      IN  /\ p.ev.restarted
                          /\ p.ev.outputs_released
                          /\ p.ev.branch = "none"
                          /\ ~p.master_mode
                          /\ p.security_lock_until_epoch = 0
                          /\ p.invalid_attempt_timestamps = <<>>
                          /\ p.relay_deactivation_time = 0
                          /\ p.lock_until_epoch = 0
                          /\ p.last_used_time = 0
                          /\ OutputsOff(p)
                          /\ ~Pass(State, uid, TRUE, t).ev.restarted
              ELSE ~Pass(State, None, FALSE, t).ev.restarted

\* the process has been restarted after a failed reset
C25_Witness ==
    /\ pc = "init"
    /\ ev.restarted
    /\ ev.outputs_released
    /\ now > StartEpoch

\* C26: a pass that reads a card, whichever card and whatever becomes of
\* the scan (master toggle, ignored by the lockout, by master mode or by
\* the engagement lock, captured in enrolment mode, granted, denied), sets
\* last_scan_time to the clock value of the read.
C26_EveryReadSetsScanTime ==
    InLoop =>
        \A uid \in Cards, mode \in BOOLEAN, t \in {now, now + 1} :
            /\ HandleCard([State EXCEPT !.scan_mode = mode], uid, t).last_scan_time = t
            /\ Pass(State, uid, TRUE, t).last_scan_time = t

\* a scan has been ignored by the engagement lock and last_scan_time is the
\* time of that pass
C26_Witness ==
    /\ InLoop
    /\ ev.branch = "engaged"
    /\ last_scan_time = now
    /\ last_scan_time > StartEpoch
    /\ ev.reset = "none"

\* every timestamp of the window w is at most 60 s older than t
WithinWindow(w, t) == \A i \in 1..Len(w) : w[i] >= t - INVALID_WINDOW_SECONDS

\* C27 as claimed: between any two passes the invalid-attempt window holds
\* no timestamp older than 60 seconds relative to now.
C27_WindowFreshAtEveryPass ==
    InLoop => WithinWindow(invalid_attempt_timestamps, now)

\* C27: the window is pruned only when an invalid attempt is recorded, so
\* between any two passes it holds no timestamp older than 60 seconds
\* relative to the latest attempt recorded in it (not relative to now); its
\* timestamps are in ascending order, none later than now, and after a
\* denied scan that did not lock the latest one is the time of that scan.
C27_WindowFreshWhenRecorded ==
    InLoop =>
        LET w == invalid_attempt_timestamps
        IN  /\ \A i \in 1..Len(w) :
                  /\ w[i] <= now
                  /\ i > 1 => w[i - 1] <= w[i]
            /\ w # <<>> => WithinWindow(w, w[Len(w)])
            /\ (ev.branch = "denied" /\ w # <<>>) => w[Len(w)] = last_scan_time

\* a denied scan has dropped the timestamps older than 60 s and kept one
\* that is exactly 60 s old
C27_Witness ==
    /\ InLoop
    /\ ev.branch = "denied"
    /\ Len(invalid_attempt_timestamps) >= 2
    /\ invalid_attempt_timestamps[Len(invalid_attempt_timestamps)]
          = Head(invalid_attempt_timestamps) + INVALID_WINDOW_SECONDS
    /\ Head(invalid_attempt_timestamps) > StartEpoch

\* C28 as claimed: the loop ends only by an interrupt: no store failure at
\* the lookup, at the creation of a pending record or at the settings read
\* ends it.
C28_LoopEndsOnlyOnInterrupt == pc = "exited" => ~ev.fatal

\* C29: however the loop ends (interrupt in any state of the loop, master
\* mode or a timed activation included, an exception leaving run(), restart
\* after a failed reader reset), every relay and indicator output is off
\* before the process exits or is executed again.
C29_OutputsOffOnEveryExit ==
    /\ (pc = "exited" \/ ev.restarted) => ev.outputs_released
    /\ pc \in {"exited", "init"} => OutputsOff(State)
    /\ InLoop =>
          /\ Ended(State).ev.outputs_released
          /\ OutputsOff(cleanup(State))
          /\ \A t \in {now, now + 1} :
                ResetAttempted(State, t) =>
                    Pass(State, None, FALSE, t).ev.outputs_released

\* the loop was interrupted while a timed activation was running
C29_Witness ==
    /\ pc = "exited"
    /\ ev.ended_while = "activation"
    /\ ev.outputs_released
    /\ ~ev.fatal
    /\ usage_log # <<>>

\* the store failing at the lookup (and at the log) of a pass
StoreFailing(s, mode) == [s EXCEPT !.store = mode, !.store_at_log = mode]

\* C30: when the store fails at the authorization lookup (get_user returns
\* nothing or raises), a scan of any non-master token, usable ones included,
\* is not granted: the relays, the relay timer, the engagement lock and the
\* usage log are as after a pass without a card, and in the idle normal-mode
\* state the scan is denied.  When the settings read fails, enrolment mode is
\* false for that pass whatever the setting is.
C30_StoreFailuresFailClosed ==
    InLoop =>
        \A mode \in {StoreError, StoreRaise} :
            /\ \A uid \in NonMasterCards :
                  LET p == Pass(StoreFailing(State, mode), uid, TRUE, now)
                      q == PassWith(None)
                  IN  /\ p.ev.branch # "granted"
                      /\ p.ev.lookup_failed =>
                            /\ p.relay = q.relay
                            /\ p.relay_deactivation_time = q.relay_deactivation_time
                            /\ p.lock_until_epoch = q.lock_until_epoch
                            /\ p.usage_log = usage_log
                      /\ IdleNormal =>
                            /\ p.ev.branch = "denied"
                            /\ p.ev.lookup_failed
                            /\ p.relay = AllRelays(FALSE)
            /\ ~refresh_scan_mode([State EXCEPT !.store_at_refresh = mode]).scan_mode
            /\ \A uid \in Cards \cup {None} :
                  LET r == Pass([StoreFailing(State, mode) EXCEPT !.store_at_refresh = mode],
                                uid, TRUE, now)
                  IN  /\ ~r.ev.restarted => ~r.scan_mode
                      /\ r.ev.branch # "scan_mode"
                      /\ ~r.ev.fatal

\* the settings read and the lookup of a pass failed while enrolment mode
\* was set: the pass ran in normal mode and denied the scan
C30_Witness ==
    /\ InLoop
    /\ ev.branch = "denied"
    /\ ev.lookup_failed
    /\ settings.scan_mode = "1"
    /\ ~scan_mode
    /\ relay = AllRelays(FALSE)

\* a master token identifier is provided by v
Provided(v) == v # None /\ v # ""

C32_ActivationDuration ==
    /\ InLoop =>
          \A uid \in Cards :
              LET p == PassWith(uid)
                  D == IF now - last_used_time > 10800 THEN 90 ELSE 30
              IN  p.ev.branch = "granted" =>
                      /\ p.relay_deactivation_time = now + D
                      /\ p.lock_until_epoch = now + D + 1
                      /\ p.last_used_time = now
                      /\ last_used_time = 0 => D = 90
    /\ relay_deactivation_time > 0 =>
          relay_deactivation_time - last_used_time \in {30, 90}

\* a second authorized scan exactly 10800 s after the first one of the
\* process has been granted 30 s
C32_Witness ==
    /\ InLoop
    /\ ev.branch = "granted"
    /\ last_used_time = StartEpoch + 10800
    /\ relay_deactivation_time = last_used_time + 30
    /\ Len(usage_log) >= 2

\* C33: a security lockout in effect lasts at most 300 s more and ends by
\* itself: up to its last second a non-master scan is ignored, and from
\* security_lock_until_epoch on it is decided by the rule that applies
\* without a lockout (master mode, engagement lock, enrolment, normal
\* authorization); the window is empty during the lockout, so an invalid
\* scan after the expiry is the only entry of the window and starts no
\* lockout.
C33_LockoutExpiresByItself ==
    (InLoop /\ now < security_lock_until_epoch) =>
        /\ invalid_attempt_timestamps = <<>>
        /\ security_lock_until_epoch <= now + 300
        /\ \A uid \in NonMasterCards :
              /\ \A t \in {now, security_lock_until_epoch - 1} :
                    Pass(State, uid, TRUE, t).ev.branch = "locked"
              /\ \A dt \in {0, 1, 60} :
                    LET t == security_lock_until_epoch + dt
                        n == Pass(State, None, TRUE, t)
                        p == Pass(State, uid, TRUE, t)
                    IN  /\ p.ev.branch # "locked"
                        /\ p.ev.branch = FirstApplicableRule(n, uid, t)
                        /\ p.ev.branch = "denied" =>
                              /\ p.invalid_attempt_timestamps = <<t>>
                              /\ p.security_lock_until_epoch = security_lock_until_epoch

\* the pass at the second the lockout expired has denied a scan, which is
\* the only entry of the window
C33_Witness ==
    /\ InLoop
    /\ Provided(master_token_id)
    /\ security_lock_until_epoch = StartEpoch + 300
    /\ now = security_lock_until_epoch
    /\ ev.branch = "denied"
    /\ invalid_attempt_timestamps = <<now>>

\* a security lockout is in effect
LockoutInEffect == now < security_lock_until_epoch

\* the engagement lock or a timed relay activation is in effect
EngagementInEffect ==
    \/ now < lock_until_epoch
    \/ relay_deactivation_time > 0 /\ now < relay_deactivation_time

\* C34 as claimed: between passes at most one of security lockout in
\* effect, master mode active and engagement lock or timed activation in
\* effect holds.
C34_ConceptualStatesExclusive ==
    InLoop =>
        /\ ~(LockoutInEffect /\ master_mode)
        /\ ~(LockoutInEffect /\ EngagementInEffect)
        /\ ~(master_mode /\ EngagementInEffect)

\* the outcomes of a scan that is denied, ignored or captured by enrolment
Refused == {"denied", "locked", "master_mode", "engaged", "scan_mode"}

\* C35: in every state in which a relay output is ON, master_mode is true
\* or a relay timer is set (relay_deactivation_time > 0); a pass whose scan
\* is denied, ignored or captured by enrolment, and a pass without a card,
\* switch no relay ON.
C35_RelaysOnOnlyWithCause ==
    /\ (\E r \in RELAY_PINS : relay[r]) => (master_mode \/ relay_deactivation_time > 0)
    /\ InLoop =>
          \A uid \in Cards \cup {None} :
              LET p == PassWith(uid)
              IN  (p.ev.branch \in Refused \cup {"none"}) =>
                      \A r \in RELAY_PINS : p.relay[r] => relay[r]

\* master mode has been left after a timed activation ran out in it: every
\* relay is OFF and no cause is left
C35_Witness ==
    /\ InLoop
    /\ ev.branch = "master"
    /\ ~master_mode
    /\ relay_deactivation_time = 0
    /\ relay = AllRelays(FALSE)
    /\ usage_log # <<>>
    /\ now >= StartEpoch + LONG_ACTIVATION_SECONDS

\* C36 as claimed: between passes, with no security lockout in effect,
\* master mode off and no relay timer pending, the indicator shows ready
\* (red on, green off).
C36_IndicatorReadyWhenIdle ==
    (InLoop /\ ~LockoutInEffect /\ ~master_mode /\ relay_deactivation_time = 0)
        => led = LedPattern("ready")

\* C37 as claimed: between a granted scan and the expiry of its engagement
\* lock no second activation starts, whatever the passes in between do (a
\* pass whose reader reset fails and the restart it causes included).
C37_NoSecondActivationInLock ==
    (InLoop /\ now < lock_until_epoch) =>
        \A t \in LockedSeconds, uid \in NonMasterCards, reset_ok \in BOOLEAN :
            LET r == Pass(State, None, reset_ok, t)
                started == IF r.ev.restarted THEN set_led_status(r, "ready") ELSE r
            IN  Pass(started, uid, TRUE, t).ev.branch # "granted"

\* C37: within one run of the process a granted scan starts one activation
\* and writes at most one usage row; from then until its engagement lock
\* expires no pass of that run, whatever card
\* it reads (the master card included), grants again, writes a usage row or
\* changes the engagement lock or last_used_time, and the relay timer is as
\* a pass without a card leaves it.  The lock in effect is the one of the
\* latest granted scan: last_used_time + D + 1 with D 30 or 90.  (A restart
\* after a failed reader reset begins a new run with no lock.)
C37_OneActivationPerGrant ==
    InLoop =>
        /\ \A uid \in {c \in NonMasterCards : RecordUsable(c)}, at_log \in StoreModes :
              LET g == Pass([State EXCEPT !.store_at_log = at_log], uid, TRUE, now)
              IN  g.ev.branch = "granted" =>
                      /\ g.usage_log \in {usage_log, Append(usage_log, uid)}
                      /\ g.lock_until_epoch = g.relay_deactivation_time + 1
                      /\ now < g.relay_deactivation_time
        /\ now < lock_until_epoch =>
              /\ lock_until_epoch - last_used_time \in {31, 91}
              /\ \A t \in LockedSeconds, uid \in Cards :
                    LET a == Pass(State, uid, TRUE, t)
                        n == Pass(State, None, TRUE, t)
                    IN  /\ a.ev.branch # "granted"
                        /\ a.usage_log = usage_log
                        /\ a.lock_until_epoch = lock_until_epoch
                        /\ a.last_used_time = last_used_time
                        /\ a.relay_deactivation_time = n.relay_deactivation_time

\* a scan has been ignored in the last second of an engagement lock, the
\* relay timer already run out, and the usage log holds the one row of the
\* grant
C37_Witness ==
    /\ InLoop
    /\ ev.branch = "engaged"
    /\ now = lock_until_epoch - 1
    /\ relay_deactivation_time = 0
    /\ usage_log # <<>>

\* C38: in the idle normal-mode state a scan of a non-master token whose
\* lookup fails (get_user returns nothing or raises) is denied and leaves
\* the window and the security lockout as the scan of a token without a
\* record leaves them: the attempt joins the window, and with 10 attempts
\* of the last 60 s already in it the lockout begins, now + 300, whether or
\* not the token is active and not barred.
C38_LookupFailureCountsAsInvalid ==
    IdleNormal =>
        \A uid \in NonMasterCards, mode \in {StoreError, StoreRaise} :
            LET f == Pass(StoreFailing(State, mode), uid, TRUE, now)
                d == Pass([State EXCEPT !.users = WithoutRow(uid)], uid, TRUE, now)
            IN  /\ f.ev.branch = "denied"
                /\ d.ev.branch = "denied"
                /\ f.invalid_attempt_timestamps = d.invalid_attempt_timestamps
                /\ f.security_lock_until_epoch = d.security_lock_until_epoch
                /\ f.led = d.led
                /\ f.relay = d.relay
                /\ IF Len(RecentInvalid) >= 10
                   THEN /\ f.security_lock_until_epoch = now + 300
                        /\ f.invalid_attempt_timestamps = <<>>
                   ELSE /\ f.security_lock_until_epoch = security_lock_until_epoch
                        /\ f.invalid_attempt_timestamps = Append(RecentInvalid, now)

\* a scan whose lookup failed has started the security lockout
C38_Witness ==
    /\ InLoop
    /\ ev.branch = "denied"
    /\ ev.lookup_failed
    /\ security_lock_until_epoch = now + 300
    /\ invalid_attempt_timestamps = <<>>

\* C39: between passes the invalid-attempt window holds at most 10
\* timestamps, in non-decreasing order, and none while a security lockout
\* is in effect.
C39_WindowBoundedAndEmptyWhenLocked ==
    LET w == invalid_attempt_timestamps
    IN  /\ Len(w) <= 10
        /\ \A i \in 2..Len(w) : w[i - 1] <= w[i]
        /\ LockoutInEffect => w = <<>>

\* a lockout is in effect, the window emptied by the attempt that started
\* it, and a scan has been ignored
C39_Witness ==
    /\ InLoop
    /\ LockoutInEffect
    /\ ev.branch = "locked"
    /\ invalid_attempt_timestamps = <<>>
    /\ led = LedPattern("off")

\* C40 as claimed: whenever main() of updater.py returns an exit code other
\* than 2, HEAD is the pre-update commit or the fetched remote commit with
\* the validation tests passed on it, and status 'success' is recorded only
\* in the latter case.
C40_ValidatesOrRollsBack ==
    (updater.pc = "returned" /\ updater.exit_code # 2) =>
        /\ \/ updater.HEAD = updater.pre_update
           \/ updater.HEAD = updater.remote_commit /\ updater.validated
        /\ updater.recorded = "success" =>
              updater.HEAD = updater.remote_commit /\ updater.validated

====
